---- MODULE Spec2Model ----
(***************************************************************************)
(* The concurrent multi-keyword pipeline of script_2.py: main submits one  *)
(* process_keyword task per keyword to a thread pool, every task pages     *)
(* through the search API (fetch_books), parses and deduplicates its       *)
(* records, main merges the results in as_completed order, deduplicates    *)
(* globally, saves and counts by time period.                              *)
(*                                                                         *)
(* A raw record (a dict of the API) is a record                            *)
(*   [has_title, title, fpy_kind, fpy]                                     *)
(* where fpy_kind is "int", "str" or "missing" and fpy is the integer when *)
(* fpy_kind = "int" (0 otherwise).  An entry is the list                   *)
(* [title, year, keyword] of the code, written <<title, year, keyword>>.   *)
(* A response is [kind, docs]: what one requests.get call meets.           *)
(***************************************************************************)
EXTENDS Integers, Sequences, FiniteSets, TLC

VARIABLES keywords, api, json_error_caught, futures, status, page, all_books,
          requests_log, parsed_books, result, main_pc, yielded,
          aggregated_data, extended, saved, period_counts

vars == <<keywords, api, json_error_caught, futures, status, page, all_books,
          requests_log, parsed_books, result, main_pc, yielded,
          aggregated_data, extended, saved, period_counts>>

(* ------------------------------ constants ------------------------------ *)

\* params['limit']
limit == 1000

MAX_THREADS == 24

TIME_PERIODS ==
  << <<2002, 2003>>, <<2004, 2005>>, <<2006, 2007>>, <<2008, 2009>>,
     <<2010, 2011>>, <<2012, 2013>>, <<2014, 2015>>, <<2016, 2017>>,
     <<2018, 2019>>, <<2020, 2021>>, <<2022, 2023>> >>

(* ------------------------------- bounds -------------------------------- *)

\* number of keywords of the pipeline runs (KEYWORDS has 10 in the source)
NumKeywords == 2

\* most full pages a source of the single-keyword runs serves before its last page
MaxFullPages == 2

KeywordNames == <<"A", "B", "C", "D", "E">>

KEYWORDS == [i \in 1..NumKeywords |-> KeywordNames[i]]

(* --------------------------- the API's answers ------------------------- *)

Doc(t, y) == [has_title |-> TRUE, title |-> t, fpy_kind |-> "int", fpy |-> y]
DocNoTitle(y) == [has_title |-> FALSE, title |-> "", fpy_kind |-> "int", fpy |-> y]
DocStrYear(t) == [has_title |-> TRUE, title |-> t, fpy_kind |-> "str", fpy |-> 0]
DocNoYear(t) == [has_title |-> TRUE, title |-> t, fpy_kind |-> "missing", fpy |-> 0]

Ok(docs) == [kind |-> "ok", docs |-> docs]
Err(kind) == [kind |-> kind, docs |-> <<>>]

\* what a request can meet besides a JSON object with a 'docs' list:
\*   conn_error, timeout, http_error  requests.get / raise_for_status raise
\*   non_json      the body is no JSON: response.json() raises
\*   json_null     the body is the JSON value null
\*   no_docs       the body is a JSON object without 'docs'
\*   docs_number   the body is a JSON object whose 'docs' is a non-zero number
ErrorKinds == {"conn_error", "timeout", "http_error", "non_json", "json_null",
               "no_docs", "docs_number"}

ShortPages == { <<>>,
                << Doc("X", 2005) >>,
                << Doc("X", 2005), Doc("Y", 2010) >>,
                << DocStrYear("Z"), Doc("X", 2005), DocNoTitle(2002), Doc("X", 2005) >>,
                << Doc("Y", 2010), Doc("X", 1999), DocNoYear("X"), Doc("W", 2023) >> }

FullPage(a, b) == [i \in 1..limit |-> IF i % 2 = 1 THEN a ELSE b]

FullPages == << FullPage(Doc("X", 2005), Doc("Y", 2010)),
                FullPage(Doc("Y", 2010), DocStrYear("Z")),
                FullPage(Doc("V", 2024), Doc("X", 2005)),
                FullPage(DocNoYear("X"), DocNoTitle(2002)) >>

Page400 == [i \in 1..400 |-> IF i % 2 = 1 THEN Doc("W", 2023) ELSE Doc("X", 2005)]

LastResponses == {Ok(p) : p \in ShortPages} \cup {Err(k) : k \in ErrorKinds}

\* the sources of the pipeline runs: one page, short or failing
Sources == { <<r>> : r \in LastResponses }

\* the sources of the single-keyword runs: n full pages, then a last response
FetchSources ==
  { [i \in 1..(n + 1) |-> IF i <= n THEN Ok(FullPages[i]) ELSE r] :
      n \in 0..MaxFullPages, r \in LastResponses \cup {Ok(Page400)} }
  \cup { << Ok(FullPages[1]), Ok(FullPages[1]), Ok(Page400), Ok(<<>>) >>,
         << Ok(Page400), Ok(FullPages[1]) >> }

\* the response to the request for page p: past the last page the API answers
\* with an empty 'docs' list
Response(src, p) == IF p <= Len(src) THEN src[p] ELSE Ok(<<>>)

(* ------------------------------ fetch_books ---------------------------- *)

\* except requests.RequestException (line 57): the failures the loop catches
RequestExceptionCaught(kind, json_caught) ==
  \/ kind \in {"conn_error", "timeout", "http_error"}
  \/ kind = "non_json" /\ json_caught

\* line 52 with <= for <: a full page taken for the last one
LastPage_inclusive(docs) == Len(docs) <= limit

\* line 52: the page is the last one
LastPage(docs) == Len(docs) < limit

\* one iteration of the while loop (lines 41-59) on the response r:
\* next |-> "loop" (line 55), "return" (a break, then line 61) or "raise".
\* What the except clause does not catch leaves fetch_books: a ValueError of
\* response.json() that is no RequestException, the TypeError of
\* "'docs' not in None" (line 47), the TypeError of all_books.extend(5) (line 50)
fetch_iteration(books, p, r, json_caught) ==
  IF r.kind = "ok"
  THEN IF r.docs = <<>>
       THEN [all_books |-> books, page |-> p, next |-> "return"]
       ELSE IF LastPage(r.docs)
            THEN [all_books |-> books \o r.docs, page |-> p, next |-> "return"]
            ELSE [all_books |-> books \o r.docs, page |-> p + 1, next |-> "loop"]
  ELSE IF r.kind = "no_docs"
  THEN [all_books |-> books, page |-> p, next |-> "return"]
  ELSE IF RequestExceptionCaught(r.kind, json_caught)
  THEN [all_books |-> books, page |-> p, next |-> "return"]
  ELSE [all_books |-> books, page |-> p, next |-> "raise"]

(* ----------------------- parse_book_titles_and_dates ------------------- *)

\* book.get('title', 'N/A')
get_title(book) == IF book.has_title THEN book.title ELSE "N/A"

\* line 72 without its test: every record is kept
isinstance_any(book) == TRUE

\* isinstance(first_publish_year, int), line 72
isinstance_int(book) == book.fpy_kind = "int"

parse_book_titles_and_dates(data, keyword) ==
  LET kept == SelectSeq(data, isinstance_int)
  IN  [i \in 1..Len(kept) |-> <<get_title(kept[i]), kept[i].fpy, keyword>>]

(* --------------------------- remove_duplicates ------------------------- *)

\* line 85 with the keyword in the identifier
identifier_with_keyword(book) == <<book[1], book[2], book[3]>>

\* line 85 with the title alone as the identifier
identifier_title(book) == <<book[1]>>

\* identifier = (title, year), line 85
identifier(book) == <<book[1], book[2]>>

\* line 88 with insert(0, book) for append(book)
dedup_iteration_prepend(st, book) ==
  IF <<book[1], book[2]>> \notin st.seen
  THEN [seen |-> st.seen \cup {<<book[1], book[2]>>},
        unique_books |-> <<book>> \o st.unique_books]
  ELSE st

\* lines 84-88: one iteration of the for loop
dedup_iteration(st, book) ==
  IF identifier(book) \notin st.seen
  THEN [seen |-> st.seen \cup {identifier(book)},
        unique_books |-> Append(st.unique_books, book)]
  ELSE st

\* the for loop of line 83 over books[lo..hi], left to right; the range is
\* halved only to keep the evaluation depth logarithmic, and the test on
\* left makes TLC finish the left half before it starts the right one
RECURSIVE dedup_loop(_, _, _, _)
dedup_loop(st, books, lo, hi) ==
  IF lo > hi THEN st
  ELSE IF lo = hi THEN dedup_iteration(st, books[lo])
  ELSE LET mid == (lo + hi) \div 2
           left == dedup_loop(st, books, lo, mid)
       IN  IF Cardinality(left.seen) >= 0
           THEN dedup_loop(left, books, mid + 1, hi)
           ELSE left

remove_duplicates(books) ==
  dedup_loop([seen |-> {}, unique_books |-> <<>>], books, 1, Len(books)).unique_books

(* ------------------------- count_books_by_period ----------------------- *)

\* line 100 with start < year for start <= year
RECURSIVE first_period_exclusive(_, _)
first_period_exclusive(year, i) ==
  IF i > Len(TIME_PERIODS) THEN 0
  ELSE IF TIME_PERIODS[i][1] < year /\ year <= TIME_PERIODS[i][2] THEN i
  ELSE first_period_exclusive(year, i + 1)

\* lines 99-102: the index of the first period holding year, 0 when none does
RECURSIVE first_period(_, _)
first_period(year, i) ==
  IF i > Len(TIME_PERIODS) THEN 0
  ELSE IF TIME_PERIODS[i][1] <= year /\ year <= TIME_PERIODS[i][2] THEN i
  ELSE first_period(year, i + 1)

\* lines 96-103; period_counts[i] is the count of TIME_PERIODS[i]
RECURSIVE count_loop(_, _, _)
count_loop(counts, books, i) ==
  IF i > Len(books) THEN counts
  ELSE LET p == first_period(books[i][2], 1)
       IN  count_loop(IF p = 0 THEN counts ELSE [counts EXCEPT ![p] = @ + 1],
                      books, i + 1)

count_books_by_period(books) ==
  count_loop([i \in 1..Len(TIME_PERIODS) |-> 0], books, 1)

(* ------------------------------ process_keyword ------------------------ *)

\* lines 126-129
process_keyword_result(books_data, keyword) ==
  IF books_data # <<>>
  THEN remove_duplicates(parse_book_titles_and_dates(books_data, keyword))
  ELSE <<>>

(* ------------------------------- the state ----------------------------- *)

Tasks == 1..Len(keywords)

Finished(k) == status[k] \in {"done", "raised"}

Running == {k \in Tasks : status[k] \in {"running", "fetched"}}

Yielded == {yielded[i] : i \in 1..Len(yielded)}

\* line 220 leaving the loop with the first future yielded
as_completed_first(y, fs) == Len(y) >= 1

\* line 220: the for loop ends when as_completed has yielded every future
as_completed_exhausted(y, fs) == Len(y) = Len(fs)

InitRun(kws, srcs) ==
  /\ keywords = kws
  /\ api \in [1..Len(kws) -> srcs]
  /\ json_error_caught \in BOOLEAN
  /\ futures = <<>>
  /\ status = [k \in 1..Len(kws) |-> "unsubmitted"]
  /\ page = [k \in 1..Len(kws) |-> 1]
  /\ all_books = [k \in 1..Len(kws) |-> <<>>]
  /\ requests_log = [k \in 1..Len(kws) |-> <<>>]
  /\ parsed_books = [k \in 1..Len(kws) |-> <<>>]
  /\ result = [k \in 1..Len(kws) |-> <<>>]
  /\ main_pc = "submit"
  /\ yielded = <<>>
  /\ aggregated_data = <<>>
  /\ extended = <<>>
  /\ saved = <<>>
  /\ period_counts = <<>>

\* a run of main on KEYWORDS
Init == InitRun(KEYWORDS, Sources)

\* a run of main on one keyword whose source has full pages
InitFetch == InitRun(<<"A">>, FetchSources)

(* ------------------------------- the steps ----------------------------- *)

\* line 219: executor.submit(process_keyword, keyword), in KEYWORDS order;
\* task k is the future futures[k]
Submit ==
  /\ main_pc = "submit"
  /\ Len(futures) < Len(keywords)
  /\ futures' = Append(futures, keywords[Len(futures) + 1])
  /\ status' = [status EXCEPT ![Len(futures) + 1] = "pending"]
  /\ main_pc' = IF Len(futures) + 1 = Len(keywords) THEN "collect" ELSE "submit"
  /\ UNCHANGED <<keywords, api, json_error_caught, page, all_books, requests_log,
                 parsed_books, result, yielded, aggregated_data, extended,
                 saved, period_counts>>

\* a pool thread takes the oldest queued task while fewer than max_workers run;
\* fetch_books starts: params['page'] = 1, all_books = [] (lines 38-39)
Start(k) ==
  /\ status[k] = "pending"
  /\ \A j \in 1..(k - 1) : status[j] # "pending"
  /\ Cardinality(Running) < MAX_THREADS
  /\ status' = [status EXCEPT ![k] = "running"]
  /\ page' = [page EXCEPT ![k] = 1]
  /\ all_books' = [all_books EXCEPT ![k] = <<>>]
  /\ UNCHANGED <<keywords, api, json_error_caught, futures, requests_log,
                 parsed_books, result, main_pc, yielded, aggregated_data,
                 extended, saved, period_counts>>

\* one iteration of the while loop of fetch_books: one request
FetchPage(k) ==
  /\ status[k] = "running"
  /\ LET it == fetch_iteration(all_books[k], page[k],
                               Response(api[k], page[k]), json_error_caught)
     IN  /\ requests_log' = [requests_log EXCEPT ![k] = Append(@, page[k])]
         /\ all_books' = [all_books EXCEPT ![k] = it.all_books]
         /\ page' = [page EXCEPT ![k] = it.page]
         /\ status' = [status EXCEPT ![k] =
                         CASE it.next = "loop" -> "running"
                           [] it.next = "return" -> "fetched"
                           [] OTHER -> "raised"]
  /\ UNCHANGED <<keywords, api, json_error_caught, futures, parsed_books,
                 result, main_pc, yielded, aggregated_data, extended, saved,
                 period_counts>>

\* process_keyword after fetch_books returned (lines 126-129): the future is done
Return(k) ==
  /\ status[k] = "fetched"
  /\ parsed_books' = [parsed_books EXCEPT ![k] =
                        IF all_books[k] # <<>>
                        THEN parse_book_titles_and_dates(all_books[k], keywords[k])
                        ELSE <<>>]
  /\ result' = [result EXCEPT ![k] = process_keyword_result(all_books[k], keywords[k])]
  /\ status' = [status EXCEPT ![k] = "done"]
  /\ UNCHANGED <<keywords, api, json_error_caught, futures, page, all_books,
                 requests_log, main_pc, yielded, aggregated_data, extended,
                 saved, period_counts>>

\* lines 220-223: as_completed yields a finished future that it has not yielded
\* yet; future.result() returns the task's list, or raises the task's exception
\* and main leaves the loop
Collect(k) ==
  /\ main_pc = "collect"
  /\ Finished(k)
  /\ k \notin Yielded
  /\ yielded' = Append(yielded, k)
  /\ IF status[k] = "raised"
     THEN /\ main_pc' = "shutdown"
          /\ UNCHANGED aggregated_data
     ELSE /\ aggregated_data' = IF result[k] # <<>>
                                THEN aggregated_data \o result[k]
                                ELSE aggregated_data
          /\ main_pc' = IF as_completed_exhausted(yielded', futures)
                        THEN "dedup" ELSE "collect"
  /\ UNCHANGED <<keywords, api, json_error_caught, futures, status, page,
                 all_books, requests_log, parsed_books, result, extended, saved,
                 period_counts>>

\* the with block left by an exception: shutdown(wait=True) waits for every
\* task, then the exception leaves main
Abort ==
  /\ main_pc = "shutdown"
  /\ \A k \in Tasks : Finished(k)
  /\ main_pc' = "aborted"
  /\ UNCHANGED <<keywords, api, json_error_caught, futures, status, page,
                 all_books, requests_log, parsed_books, result, yielded,
                 aggregated_data, extended, saved, period_counts>>

\* line 225
Dedup ==
  /\ main_pc = "dedup"
  /\ extended' = aggregated_data
  /\ aggregated_data' = remove_duplicates(aggregated_data)
  /\ main_pc' = "save"
  /\ UNCHANGED <<keywords, api, json_error_caught, futures, status, page,
                 all_books, requests_log, parsed_books, result, yielded, saved,
                 period_counts>>

\* line 226: save_to_csv receives the table
Save ==
  /\ main_pc = "save"
  /\ saved' = aggregated_data
  /\ main_pc' = "count"
  /\ UNCHANGED <<keywords, api, json_error_caught, futures, status, page,
                 all_books, requests_log, parsed_books, result, yielded,
                 aggregated_data, extended, period_counts>>

\* line 228
Count ==
  /\ main_pc = "count"
  /\ period_counts' = count_books_by_period(aggregated_data)
  /\ main_pc' = "done"
  /\ UNCHANGED <<keywords, api, json_error_caught, futures, status, page,
                 all_books, requests_log, parsed_books, result, yielded,
                 aggregated_data, extended, saved>>

Next ==
  \/ Submit
  \/ \E k \in Tasks : Start(k)
  \/ \E k \in Tasks : FetchPage(k)
  \/ \E k \in Tasks : Return(k)
  \/ \E k \in Tasks : Collect(k)
  \/ Abort
  \/ Dedup
  \/ Save
  \/ Count

Spec == Init /\ [][Next]_vars

SpecFetch == InitFetch /\ [][Next]_vars

(* ---------------------------- auxiliary notions ------------------------ *)

RECURSIVE SumSeq(_, _)
SumSeq(s, i) == IF i > Len(s) THEN 0 ELSE s[i] + SumSeq(s, i + 1)

\* the DedupKey of an entry
Key(e) == <<e[1], e[2]>>

EntrySet(s) == {s[i] : i \in 1..Len(s)}

\* the positions of s that hold the first occurrence of their key
FirstIdx(s) == {i \in 1..Len(s) : \A j \in 1..(i - 1) : Key(s[j]) # Key(s[i])}

\* out is the subsequence of s at the positions FirstIdx(s)
IsFirstOccurrences(s, out) ==
  /\ Len(out) = Cardinality(FirstIdx(s))
  /\ \A n \in 1..Len(out) :
       \E i \in FirstIdx(s) :
         /\ Cardinality({j \in FirstIdx(s) : j <= i}) = n
         /\ out[n] = s[i]

\* the results of the tasks order[1], order[2], ... joined as lines 221-223 join them
RECURSIVE Joined(_, _)
Joined(order, i) ==
  IF i > Len(order) THEN <<>> ELSE result[order[i]] \o Joined(order, i + 1)

SubmissionOrder == [k \in 1..Len(keywords) |-> k]

Deduped == main_pc \in {"save", "count", "done"}

InSomePeriod(year) ==
  \E p \in 1..Len(TIME_PERIODS) : TIME_PERIODS[p][1] <= year /\ year <= TIME_PERIODS[p][2]

\* the raw records of task k with an integer first_publish_year
IntYearDocs(k) == {i \in 1..Len(all_books[k]) : all_books[k][i].fpy_kind = "int"}

\* entry e of task k stems from a raw record with an integer year
FromIntYearDoc(e, k) ==
  \E i \in IntYearDocs(k) :
    /\ e[1] = (IF all_books[k][i].has_title THEN all_books[k][i].title ELSE "N/A")
    /\ e[2] = all_books[k][i].fpy
    /\ e[3] = keywords[k]

\* the first page of src that ends the pagination: failed, empty or short
StopsAt(src, p) ==
  LET r == Response(src, p) IN r.kind # "ok" \/ Len(r.docs) < 1000

FirstStop(src) ==
  CHOOSE p \in 1..(Len(src) + 1) :
    StopsAt(src, p) /\ \A q \in 1..(p - 1) : ~StopsAt(src, q)

RECURSIVE PagesDocs(_, _)
PagesDocs(src, n) == IF n = 0 THEN <<>> ELSE PagesDocs(src, n - 1) \o Response(src, n).docs

\* the source of the pagination example: pages of 1000, 1000, 400 and 0 records
ExampleSource == << Ok(FullPages[1]), Ok(FullPages[1]), Ok(Page400), Ok(<<>>) >>

(* --------------------------------- claims ------------------------------ *)

\* C1: for fixed fetch results the aggregated table has the same content, as a
\* set of (title, year, keyword) entries, whatever the order in which the
\* keyword workers complete: it is the content the submission order gives.
C1_OrderIndependent ==
  main_pc = "done" =>
    EntrySet(aggregated_data) = EntrySet(remove_duplicates(Joined(SubmissionOrder, 1)))

\* C2: after a run no two entries of the table passed to save_to_csv and
\* count_books_by_period have the same (title, year) pair.
C2_UniqueKeys ==
  /\ Deduped =>
       \A i, j \in 1..Len(aggregated_data) :
         i # j => Key(aggregated_data[i]) # Key(aggregated_data[j])
  /\ main_pc \in {"count", "done"} => saved = aggregated_data

C2_Witness ==
  /\ main_pc = "done"
  /\ Len(saved) >= 2
  /\ \E i, j \in 1..Len(extended) :
       /\ i # j
       /\ Key(extended[i]) = Key(extended[j])
       /\ extended[i][3] # extended[j][3]

C4_NeverAborts ==
  json_error_caught => main_pc # "aborted"

\* C5: when pages 1..n-1 of a keyword are full and page n fails, process_keyword
\* returns normally the deduplicated entries of pages 1..n-1, after n requests.
\* Stated for n >= 2 and a requests library whose JSON error is a
\* RequestException.
C5_TruncatedResult ==
  \A k \in Tasks :
    LET n == FirstStop(api[k]) IN
      (json_error_caught /\ n >= 2 /\ Finished(k) /\ Response(api[k], n).kind # "ok") =>
        /\ status[k] = "done"
        /\ Len(requests_log[k]) = n
        /\ result[k] = process_keyword_result(PagesDocs(api[k], n - 1), keywords[k])

\* C6: fetch_books requests the pages 1, 2, 3, ... and stops with the first page
\* that is empty, failed or shorter than 1000 records; when it returns it has
\* every record of the pages before and of that page; on pages of 1000, 1000,
\* 400 and 0 records it makes 3 requests and returns 2400 records.
C6_Pagination ==
  \A k \in Tasks :
    LET n == FirstStop(api[k]) IN
      /\ requests_log[k] = [i \in 1..Len(requests_log[k]) |-> i]
      /\ Len(requests_log[k]) <= n
      /\ status[k] = "running" => page[k] = Len(requests_log[k]) + 1
      /\ status[k] \in {"fetched", "done", "raised"} => Len(requests_log[k]) = n
      /\ status[k] \in {"fetched", "done"} => all_books[k] = PagesDocs(api[k], n)
      /\ (api[k] = ExampleSource /\ status[k] \in {"fetched", "done"}) =>
           Len(requests_log[k]) = 3 /\ Len(all_books[k]) = 2400

C6_Witness ==
  \E k \in Tasks :
    /\ api[k] = ExampleSource
    /\ status[k] = "done"
    /\ requests_log[k] = <<1, 2, 3>>
    /\ Len(all_books[k]) = 2400

\* C7: the period counts sum to at most the number of entries, every entry is
\* counted in at most one period, and the sum is the number of entries exactly
\* when the periods cover every year from the least to the greatest year of
\* the table.
C7_BucketingTotal ==
  main_pc = "done" =>
    LET n == Len(aggregated_data)
        years == {aggregated_data[i][2] : i \in 1..n}
        total == SumSeq(period_counts, 1)
        covered == \A lo, hi \in years : \A y \in lo..hi : InSomePeriod(y)
    IN  /\ Len(period_counts) = Len(TIME_PERIODS)
        /\ total <= n
        /\ total = Cardinality({i \in 1..n : InSomePeriod(aggregated_data[i][2])})
        /\ \A p \in 1..Len(TIME_PERIODS) :
             period_counts[p] <=
               Cardinality({i \in 1..n :
                              /\ TIME_PERIODS[p][1] <= aggregated_data[i][2]
                              /\ aggregated_data[i][2] <= TIME_PERIODS[p][2]})
        /\ (total = n) <=> covered

C7_Witness ==
  /\ main_pc = "done"
  /\ SumSeq(period_counts, 1) >= 2
  /\ SumSeq(period_counts, 1) < Len(aggregated_data)
  /\ period_counts[1] = 1
  /\ period_counts[Len(TIME_PERIODS)] = 1

\* C8: the global dedup applied to the aggregated table returns the table
\* unchanged, same entries in the same order.
C8_Idempotent ==
  Deduped => remove_duplicates(aggregated_data) = aggregated_data

C8_Witness ==
  /\ main_pc = "done"
  /\ Len(aggregated_data) >= 3
  /\ Len(extended) > Len(aggregated_data)

C10_FirstOccurrences ==
  /\ \A k \in Tasks : status[k] = "done" => IsFirstOccurrences(parsed_books[k], result[k])
  /\ Deduped => IsFirstOccurrences(extended, aggregated_data)

C10_Witness ==
  /\ main_pc = "done"
  /\ \E k \in Tasks : Len(result[k]) >= 2 /\ Len(result[k]) < Len(parsed_books[k])
  /\ Len(aggregated_data) >= 2
  /\ \E i, j \in 1..Len(extended) :
       i < j /\ Key(extended[i]) = Key(extended[j]) /\ extended[i][3] # extended[j][3]

====
